---------------------------- MODULE Spec2Model ----------------------------
(***************************************************************************)
(* A model of the Google Drive mirror: the two mirroring engines           *)
(* (hybrid_main.mirror_drive_hybrid and main.mirror_drive_async), their    *)
(* worker code, the shared message queue, the local file system and the    *)
(* progress callback.                                                      *)
(*                                                                         *)
(* Strings that the code takes apart (names, paths) are sequences of       *)
(* one-character strings; a path is a sequence of segments below the       *)
(* output folder.  A status message is a record: head is its first word    *)
(* (what msg.startswith tests), rest the remainder of its literal text,    *)
(* arg what was formatted into it, and id the item it is about (0: none).  *)
(***************************************************************************)
EXTENDS Naturals, Integers, Sequences, FiniteSets, TLC

(* ------------------------------ bounds -------------------------------- *)

\* items in the remote store, cpu_count(), the max_processes / DRIVE_MIRROR_PROCS
\* setting, tasks_per_process, mirror runs against one output folder.
MaxFiles == 2
MaxCpu == 2
MaxProcs == 2
MaxTasksPerProcess == 2
MaxRuns == 2
\* list lengths and group counts _chunkify is tried on
MaxChunkLen == 5
MaxChunks == 4
\* items in one page of a files().list response
PageLen == 1

(* ------------------------------ strings ------------------------------- *)

Min(a, b) == IF a < b THEN a ELSE b

Max(a, b) == IF a > b THEN a ELSE b

\* "".join(c for c in name if c not in "\/:*?\"<>|")     hybrid_main.py:196
HybridIllegal == {"\\", "/", ":", "*", "?", "\"", "<", ">", "|"}

RECURSIVE safe_name(_)
safe_name(name) ==
    IF name = <<>> THEN <<>>
    ELSE IF Head(name) \in HybridIllegal THEN safe_name(Tail(name))
    ELSE <<Head(name)>> \o safe_name(Tail(name))


(* -------------------- main.py: names and paths ------------------------ *)

MAX_PATH_LEN == 240

Untitled == <<"u", "n", "t", "i", "t", "l", "e", "d">>

\* invalid_chars = '<>:"/\\|?*\0'                               main.py:90
MainIllegal == {"<", ">", ":", "\"", "/", "\\", "|", "?", "*", "NUL"}

Whitespace == {" ", "\t", "\n", "\r"}

RECURSIVE lstrip(_)
lstrip(s) ==
    IF s # <<>> /\ Head(s) \in Whitespace THEN lstrip(Tail(s)) ELSE s

RECURSIVE rstrip(_)
rstrip(s) ==
    IF s # <<>> /\ s[Len(s)] \in Whitespace
    THEN rstrip(SubSeq(s, 1, Len(s) - 1)) ELSE s

strip(s) == rstrip(lstrip(s))

\* s[:n] of Python, for n >= 0 and for a negative n (counted from the end)
Take(s, n) ==
    IF n >= 0 THEN SubSeq(s, 1, Min(n, Len(s)))
    ELSE SubSeq(s, 1, Max(0, Len(s) + n))

\* str.rfind: the last index of c in s, 0 when there is none
rfind(s, c) ==
    LET hits == {i \in 1..Len(s) : s[i] = c}
    IN  IF hits = {} THEN 0 ELSE CHOOSE i \in hits : \A j \in hits : j <= i

\* os.path.splitext (posixpath): the extension starts at the last dot of the
\* last path component, unless only dots precede it in that component.
splitext(p) ==
    LET sep == rfind(p, "/")
        dot == rfind(p, ".")
        real == dot > sep /\ \E i \in (sep + 1)..(dot - 1) : p[i] # "."
    IN  IF real
        THEN [base |-> SubSeq(p, 1, dot - 1), ext |-> SubSeq(p, dot, Len(p))]
        ELSE [base |-> p, ext |-> <<>>]

sanitize_name(name) ==
    IF name = <<>> THEN Untitled
    ELSE LET clean0 == [i \in 1..Len(name) |->
                           IF name[i] \in MainIllegal THEN "_" ELSE name[i]]
             clean1 == strip(clean0)
             sp     == splitext(clean1)
             ext    == Take(sp.ext, 20)
             clean2 == IF Len(clean1) > MAX_PATH_LEN
                       THEN Take(sp.base, MAX_PATH_LEN - Len(ext)) \o ext
                       ELSE clean1
         IN  IF clean2 = <<>> THEN Untitled ELSE clean2

(* ----------------------------- item records --------------------------- *)

FOLDER_MIME == "application/vnd.google-apps.folder"
DOC_MIME    == "application/vnd.google-apps.document"
SHEET_MIME  == "application/vnd.google-apps.spreadsheet"
SLIDES_MIME == "application/vnd.google-apps.presentation"
FORM_MIME   == "application/vnd.google-apps.form"
PLAIN_MIME  == "text/plain"

\* mime.startswith('application/vnd.google-apps')
IsGoogleApps(mime) ==
    mime \in {FOLDER_MIME, DOC_MIME, SHEET_MIME, SLIDES_MIME, FORM_MIME}

NoneVal == "None"

DOCX_MIME == "application/vnd.openxmlformats-officedocument.wordprocessingml.document"
XLSX_MIME == "application/vnd.openxmlformats-officedocument.spreadsheetml.sheet"
PPTX_MIME == "application/vnd.openxmlformats-officedocument.presentationml.presentation"
PDF_MIME  == "application/pdf"

\* the mapping without its fallback to PDF
_map_export_mime_no_fallback(mime_type) ==
    IF mime_type = DOC_MIME THEN DOCX_MIME
    ELSE IF mime_type = SHEET_MIME THEN XLSX_MIME
    ELSE IF mime_type = SLIDES_MIME THEN PPTX_MIME
    ELSE NoneVal

_map_export_mime(mime_type) ==
    IF mime_type = DOC_MIME THEN DOCX_MIME
    ELSE IF mime_type = SHEET_MIME THEN XLSX_MIME
    ELSE IF mime_type = SLIDES_MIME THEN PPTX_MIME
    ELSE IF IsGoogleApps(mime_type) THEN PDF_MIME
    ELSE NoneVal

\* the ext table of _download_task                    hybrid_main.py:183-188
HybridExt(export_mime) ==
    IF export_mime = DOCX_MIME THEN <<".", "d", "o", "c", "x">>
    ELSE IF export_mime = XLSX_MIME THEN <<".", "x", "l", "s", "x">>
    ELSE IF export_mime = PPTX_MIME THEN <<".", "p", "p", "t", "x">>
    ELSE IF export_mime = PDF_MIME THEN <<".", "p", "d", "f">>
    ELSE <<>>

\* the if-chain of download_file                               main.py:151-176
MainExt(item) ==
    IF IsGoogleApps(item.mimeType)
    THEN IF item.mimeType = DOC_MIME THEN <<".", "d", "o", "c", "x">>
         ELSE IF item.mimeType = SHEET_MIME THEN <<".", "x", "l", "s", "x">>
         ELSE IF item.mimeType = SLIDES_MIME THEN <<".", "p", "p", "t", "x">>
         ELSE <<".", "p", "d", "f">>
    ELSE splitext(item.name).ext

\* The remote items a store is drawn from: a folder, two files whose names
\* differ only in an illegal character (one of them in a folder that is its
\* own parent), a native document shared with the account without parent
\* metadata, a trashed native form whose name is one illegal character, and
\* the self-parented folder.
Catalogue ==
    << [id |-> 1, name |-> <<"d">>, mimeType |-> FOLDER_MIME,
        parents |-> <<>>, shared |-> FALSE, trashed |-> FALSE,
        ownedByMe |-> TRUE],
       [id |-> 2, name |-> <<"a">>, mimeType |-> PLAIN_MIME,
        parents |-> <<1>>, shared |-> FALSE, trashed |-> FALSE,
        ownedByMe |-> TRUE],
       [id |-> 3, name |-> <<"a", "?">>, mimeType |-> PLAIN_MIME,
        parents |-> <<6>>, shared |-> FALSE, trashed |-> FALSE,
        ownedByMe |-> TRUE],
       [id |-> 4, name |-> <<"a">>, mimeType |-> DOC_MIME,
        parents |-> <<>>, shared |-> TRUE, trashed |-> FALSE,
        ownedByMe |-> FALSE],
       [id |-> 5, name |-> <<"?">>, mimeType |-> FORM_MIME,
        parents |-> <<>>, shared |-> FALSE, trashed |-> TRUE,
        ownedByMe |-> TRUE],
       [id |-> 6, name |-> <<"c">>, mimeType |-> FOLDER_MIME,
        parents |-> <<6>>, shared |-> FALSE, trashed |-> FALSE,
        ownedByMe |-> TRUE] >>

ItemIds == {Catalogue[i].id : i \in 1..Len(Catalogue)}

\* the contents a remote store can have: the catalogue entries at a strictly
\* increasing choice of at most MaxFiles positions
RECURSIVE SubSeqsFrom(_, _)
SubSeqsFrom(k, n) ==
    IF k > Len(Catalogue) \/ n = 0 THEN {<<>>}
    ELSE SubSeqsFrom(k + 1, n)
         \cup {<<Catalogue[k]>> \o t : t \in SubSeqsFrom(k + 1, n - 1)}

Listings == SubSeqsFrom(1, MaxFiles)

(* -------------------------- the metadata listers ---------------------- *)

\* q="'me' in owners"                                    hybrid_main.py:69
HybridQuery(f) == f.ownedByMe

\* q="trashed = false", corpora="user", includeItemsFromAllDrives=True
\*                                                            main.py:54-57
MainQuery(f) == ~f.trashed

\* what the remote store holds for the query of the engine's lister
Matching(store, eng) ==
    SelectSeq(store, LAMBDA f : IF eng = "hybrid" THEN HybridQuery(f)
                                ELSE MainQuery(f))

\* response.get('files', []) for pageToken = token (0: None)
PageFiles(result, token) ==
    SubSeq(result, token + 1, Min(token + PageLen, Len(result)))

\* response.get('nextPageToken') (0: None)
NextPageToken(result, token) ==
    IF token + PageLen < Len(result) THEN token + PageLen ELSE 0

(* ------------------------ main.py: path resolver ---------------------- *)

\* folder_id -> {name, parent} of every folder of the listing
build_folder_map(files) ==
    LET fidx == {i \in 1..Len(files) : files[i].mimeType = FOLDER_MIME}
        ids  == {files[i].id : i \in fidx}
        last(fid) == CHOOSE i \in fidx :
                        files[i].id = fid
                        /\ \A j \in fidx : files[j].id = fid => j <= i
    IN  [fid \in ids |->
            [name   |-> files[last(fid)].name,
             parent |-> IF files[last(fid)].parents # <<>>
                        THEN files[last(fid)].parents[1] ELSE 0]]

\* the while loop of resolve_path_for_item; fuel counts the folders the walk
\* may still visit: more visits than there are folders means a folder is
\* visited twice and the loop never ends (diverged).
RECURSIVE walk(_, _, _, _)
walk(parent, folder_map, parts, fuel) ==
    IF parent # 0 /\ parent \in DOMAIN folder_map
    THEN IF fuel = 0 THEN [parts |-> parts, diverged |-> TRUE]
         ELSE walk(folder_map[parent].parent, folder_map,
                   <<sanitize_name(folder_map[parent].name)>> \o parts,
                   fuel - 1)
    ELSE [parts |-> parts, diverged |-> FALSE]

resolve_path_for_item(item, folder_map) ==
    LET parent == IF item.parents # <<>> THEN item.parents[1] ELSE 0
        w == walk(parent, folder_map, <<>>, Cardinality(DOMAIN folder_map))
    IN  [w EXCEPT !.parts =
            IF w.parts = <<>>
            THEN IF item.shared THEN <<<<"S", "h", "a", "r", "e", "d">>>>
                 ELSE <<<<"M", "y", " ", "D", "r", "i", "v", "e">>>>
            ELSE w.parts]

get_local_path(item, folder_map) ==
    resolve_path_for_item(item, folder_map).parts
        \o <<sanitize_name(item.name)>>

\* final_path = base_local + ext                                main.py:177
MainFinalPath(item, folder_map) ==
    LET base == get_local_path(item, folder_map)
    IN  SubSeq(base, 1, Len(base) - 1) \o <<base[Len(base)] \o MainExt(item)>>

(* ---------------------- hybrid_main.py: destinations ------------------ *)

\* dest = os.path.join(output_folder, safe_name + ext)  hybrid_main.py:175-197
HybridDest(meta) ==
    LET ext == IF IsGoogleApps(meta.mimeType)
               THEN HybridExt(_map_export_mime(meta.mimeType)) ELSE <<>>
    IN  <<safe_name(meta.name) \o ext>>

PartSuffix == <<".", "p", "a", "r", "t">>

\* tmp_path = dest_path + '.part'                       hybrid_main.py:114
TmpPath(dest) ==
    SubSeq(dest, 1, Len(dest) - 1) \o <<dest[Len(dest)] \o PartSuffix>>

\* the split with the remainder m left out of the sizes
RECURSIVE chunk_loop_floor(_, _, _, _)
chunk_loop_floor(lst, n, i, start) ==
    IF i >= n THEN <<>>
    ELSE LET size == Len(lst) \div n
         IN  <<SubSeq(lst, start + 1, start + size)>>
             \o chunk_loop_floor(lst, n, i + 1, start + size)

_chunkify_floor(lst, n) ==
    IF n <= 0 THEN <<lst>> ELSE chunk_loop_floor(lst, n, 0, 0)

\* Split list into n approximately-equal chunks
RECURSIVE chunk_loop(_, _, _, _)
chunk_loop(lst, n, i, start) ==
    IF i >= n THEN <<>>
    ELSE LET k == Len(lst) \div n
             m == Len(lst) % n
             size == k + (IF i < m THEN 1 ELSE 0)
         IN  <<SubSeq(lst, start + 1, start + size)>>
             \o chunk_loop(lst, n, i + 1, start + size)

_chunkify(lst, n) == IF n <= 0 THEN <<lst>> ELSE chunk_loop(lst, n, 0, 0)


(* ------------------------------ messages ------------------------------ *)

Msg(head, rest, arg, id) == [head |-> head, rest |-> rest, arg |-> arg, id |-> id]

MsgDownloaded(path, id)  == Msg("Downloaded:", "", path, id)
MsgSkipExists(path, id)  == Msg("Skipped", "(exists):", path, id)
MsgSkipNoExport(name, id) == Msg("Skipped", "(no export type):", <<name>>, id)
MsgError(name, id)       == Msg("Error", "downloading", <<name>>, id)
MsgWarnRefresh(pid)      == Msg("WARNING:", "Refresh failed for process", <<>>, pid)
MsgWarnProcess(pid)      == Msg("WARNING:", "Process failed with error", <<>>, pid)
MsgAllFinished           == Msg("All", "worker processes finished.", <<>>, 0)
MsgNoFiles               == Msg("No", "files found.", <<>>, 0)
MsgNoFilesToDownload     == Msg("No", "files found to download.", <<>>, 0)

\* msg.startswith(prefix), for the one-word prefixes the collector tests
startswith(msg, prefix) == msg.head = prefix

(* ------------------------------- state -------------------------------- *)

VARIABLES
    engine,             \* "hybrid": mirror_drive_hybrid, "async": mirror_drive_async
    drive,              \* the items of the remote store (unchanged between runs)
    run,                \* number of the current mirror run against the folder
    pc,                 \* position of the generator
    has_cb,             \* progress_callback is not None
    lister_files,       \* the lister's local 'files' while it pages
    page_token,         \* the lister's local page_token (0: None)
    cpu_count,          \* multiprocessing.cpu_count()
    budget,             \* max_processes argument / DRIVE_MIRROR_PROCS (0: not set)
    start_button,       \* gui: state of the Start button
    active,             \* gui: run_async_mirror threads started and not ended
    progress_label,     \* gui: text of the progress label
    tasks_per_process,  \* sub-concurrency of a hybrid worker
    all_files,          \* result of the listing
    targets,            \* the non-folder items
    total, completed,
    nprocs,             \* max_processes (hybrid) / processes (async) after clamping
    chunks,             \* hybrid: _chunkify of the target positions
    unit,               \* hybrid: state of the worker call of each chunk
    dead,               \* hybrid: pool processes that died and are not yet replaced
    task,               \* state of the fetch of each target
    queue,              \* hybrid: manager.Queue; async: futures in completion order
    put,                \* every message a worker has put (returned) so far, in order
    output,             \* messages yielded to the caller so far
    calls,              \* invocations of progress_callback so far
    fs                  \* files below the output folder: path -> content

vars == <<engine, drive, run, pc, has_cb, lister_files, page_token, cpu_count,
          budget, start_button, active, progress_label,
          tasks_per_process, all_files, targets, total, completed, nprocs,
          chunks, unit, dead, task, queue, put, output, calls, fs>>

params == <<engine, drive, run>>

lister == <<lister_files, page_token>>

conf == <<cpu_count, budget>>

gui == <<start_button, active, progress_label>>

Range(s) == {s[i] : i \in 1..Len(s)}

\* every path a run can touch below the output folder
Paths ==
    UNION {UNION {{HybridDest(l[i]), TmpPath(HybridDest(l[i])),
                   MainFinalPath(l[i], build_folder_map(l))}
                  : i \in {j \in 1..Len(l) : l[j].mimeType # FOLDER_MIME}}
           : l \in Listings}

\* file content: which item's bytes, written in which run, completely or not
NoFile == [id |-> 0, run |-> 0, complete |-> FALSE]

Content(id, r, complete) == [id |-> id, run |-> r, complete |-> complete]

\* os.path.exists(path)
Exists(files, path) == files[path] # NoFile

\* open(path, 'wb'): create or truncate, nothing written yet
OpenWb(files, path, id, r) == [files EXCEPT ![path] = Content(id, r, FALSE)]

\* os.replace(src, dst)
Replace(files, src, dst) == [files EXCEPT ![dst] = files[src], ![src] = NoFile]

Init ==
    /\ engine \in {"hybrid", "async"}
    /\ drive \in Listings
    /\ run = 1
    /\ pc = "list"
    /\ has_cb = FALSE
    /\ lister_files = <<>>
    /\ page_token = 0
    /\ cpu_count = 0
    /\ budget = 0
    /\ start_button = "normal"
    /\ active = 0
    /\ progress_label = "Idle"
    /\ tasks_per_process = 1
    /\ all_files = <<>>
    /\ targets = <<>>
    /\ total = 0
    /\ completed = 0
    /\ nprocs = 0
    /\ chunks = <<>>
    /\ unit = <<>>
    /\ dead = 0
    /\ task = <<>>
    /\ queue = <<>>
    /\ put = <<>>
    /\ output = <<>>
    /\ calls = <<>>
    /\ fs = [p \in Paths |-> NoFile]


\* queue.put(msg) of a worker; in main.py, the completion of a future
Put(msg) == queue' = Append(queue, msg) /\ put' = Append(put, msg)

(* ------------------------- start of a mirror run ---------------------- *)

\* The call: its parameters are chosen here.  authenticate, then the lister
\* starts with files = [] and page_token = None; a failed login raises out
\* of the generator before anything is yielded.
ListFiles ==
    /\ pc = "list"
    /\ \E cb \in BOOLEAN, tpp \in 1..MaxTasksPerProcess, ok \in BOOLEAN :
          /\ engine = "async" => tpp = 1
          /\ active > 0 => cb
          /\ has_cb' = cb
          /\ tasks_per_process' = tpp
          /\ pc' = IF ok THEN "page" ELSE "aborted"
    /\ lister_files' = <<>>
    /\ page_token' = 0
    /\ UNCHANGED <<put, params, gui, conf, all_files, targets, total, completed,
                   nprocs, chunks, unit, dead, task, queue, output, calls, fs>>

\* the page request is answered by an error and the lister returns what it
\* has so far
PageErrorSwallowed ==
    /\ pc' = "prepare"
    /\ all_files' = lister_files
    /\ UNCHANGED lister

\* .execute() raises: nothing in the lister or the generator catches it, so
\* the exception ends both; all_files is never assigned.  The lister's
\* locals are shown as they were when the frame was left.
PageError ==
    /\ pc' = "aborted"
    /\ UNCHANGED <<lister, all_files>>

\* one pass of the while loop of list_all_drive_files / get_all_files: the
\* request either raises or its files are appended; a response without
\* nextPageToken ends the loop and the list is returned.
ListPage ==
    /\ pc = "page"
    /\ LET result == Matching(drive, engine)
           got == lister_files \o PageFiles(result, page_token)
           next == NextPageToken(result, page_token)
       IN  \E ok \in BOOLEAN :
              IF ~ok
              THEN PageError
              ELSE IF next # 0
              THEN /\ lister_files' = got
                   /\ page_token' = next
                   /\ UNCHANGED <<pc, all_files>>
              ELSE /\ all_files' = got
                   /\ lister_files' = <<>>
                   /\ page_token' = 0
                   /\ pc' = "prepare"
    /\ UNCHANGED <<put, params, gui, conf, has_cb, tasks_per_process, targets, total,
                   completed, nprocs, chunks, unit, dead, task, queue, output,
                   calls, fs>>

\* the filter left out: folders are kept among the targets
NonFoldersUnfiltered(files) == files

\* [... for f in all_files if f.get('mimeType') != folder]
NonFolders(files) ==
    SelectSeq(files, LAMBDA f : f.mimeType # FOLDER_MIME)

Positions(n) == [i \in 1..n |-> i]

(* ----------------------- hybrid_main.py: the run ---------------------- *)

HybridMeta(f) == [id |-> f.id, name |-> f.name, mimeType |-> f.mimeType]

\* max_processes = min(max_processes or cpu_count, cpu_count); mp = 0 is None
ClampProcesses(mp, cpu) == Min(IF mp = 0 THEN cpu ELSE mp, cpu)

\* targets, total, the T = 0 exit, the pool and one apply_async per
\* non-empty chunk
HPrepare ==
    /\ engine = "hybrid"
    /\ pc = "prepare"
    /\ LET nf == NonFolders(all_files)
           tg == [i \in 1..Len(nf) |-> HybridMeta(nf[i])]
       IN  /\ targets' = tg
           /\ total' = Len(tg)
           /\ IF Len(tg) = 0
              THEN /\ output' = Append(output, MsgNoFiles)
                   /\ pc' = "done"
                   /\ UNCHANGED <<conf, nprocs, chunks, unit, task>>
              ELSE \E cpu \in 1..MaxCpu, mp \in 0..MaxProcs :
                      LET n  == ClampProcesses(mp, cpu)
                          ch == _chunkify(Positions(Len(tg)), n)
                      IN  /\ cpu_count' = cpu
                          /\ budget' = mp
                          /\ nprocs' = n
                          /\ chunks' = ch
                          /\ unit' = [u \in 1..Len(ch) |->
                                         IF ch[u] = <<>> THEN "none" ELSE "queued"]
                          /\ task' = [t \in 1..Len(tg) |-> "idle"]
                          /\ pc' = "collect"
                          /\ UNCHANGED output
    /\ UNCHANGED <<put, params, gui, lister, has_cb, tasks_per_process, all_files,
                   completed, dead, queue, calls, fs>>

UnitOf(t) == CHOOSE u \in 1..Len(chunks) : t \in Range(chunks[u])

TasksOf(u) == Range(chunks[u])

Busy(u) == unit[u] = "running" /\ \E t \in TasksOf(u) : task[t] # "done"

\* the call of this chunk has returned
Finished(u) ==
    \/ unit[u] \in {"none", "failed"}
    \/ unit[u] = "running" /\ \A t \in TasksOf(u) : task[t] = "done"

\* _worker_process_main up to the creation of the tasks: the refresh of line
\* 161 is outside any try of _process_chunk, so its failure ends the call
\* with the WARNING of line 233 and no task is created.
HUnitStart(u) ==
    /\ engine = "hybrid"
    /\ unit[u] = "queued"
    /\ Cardinality({v \in 1..Len(unit) : Busy(v)}) < nprocs - dead
    /\ \E refresh_raises \in BOOLEAN :
          IF refresh_raises
          THEN /\ unit' = [unit EXCEPT ![u] = "failed"]
               /\ Put(MsgWarnProcess(u - 1))
               /\ UNCHANGED task
          ELSE /\ unit' = [unit EXCEPT ![u] = "running"]
               /\ task' = [t \in DOMAIN task |->
                              IF t \in TasksOf(u) THEN "new" ELSE task[t]]
               /\ UNCHANGED <<queue, put>>
    /\ UNCHANGED <<params, gui, lister, conf, pc, has_cb, tasks_per_process, all_files, targets,
                   total, completed, nprocs, chunks, dead, output, calls, fs>>

\* no semaphore around the transfer
SemFreeAlways(u) == TRUE

\* asyncio.Semaphore(tasks_per_process): held from 'async with sem' to the
\* end of _download_file_aio
SemHeld(u) == Cardinality({t \in TasksOf(u) : task[t] \in {"open", "streaming"}})

SemFree(u) == SemHeld(u) < tasks_per_process

\* _download_task from its first line to 'async with sem'
HTaskBegin(t) ==
    /\ engine = "hybrid"
    /\ task[t] = "new"
    /\ LET meta == targets[t]
           u == UnitOf(t)
       IN  IF IsGoogleApps(meta.mimeType)
              /\ _map_export_mime(meta.mimeType) = NoneVal
           THEN /\ Put(MsgSkipNoExport(meta.name, meta.id))
                /\ task' = [task EXCEPT ![t] = "done"]
           ELSE \E refresh_raises \in BOOLEAN :
                   /\ IF refresh_raises
                      THEN Put(MsgWarnRefresh(u - 1))
                      ELSE UNCHANGED <<queue, put>>
                   /\ task' = [task EXCEPT ![t] =
                                  IF SemFree(u) THEN "open" ELSE "waiting"]
    /\ UNCHANGED <<params, gui, lister, conf, pc, has_cb, tasks_per_process, all_files, targets,
                   total, completed, nprocs, chunks, unit, dead, output,
                   calls, fs>>

HTaskAcquire(t) ==
    /\ engine = "hybrid"
    /\ task[t] = "waiting"
    /\ SemFree(UnitOf(t))
    /\ task' = [task EXCEPT ![t] = "open"]
    /\ UNCHANGED <<put, params, gui, lister, conf, pc, has_cb, tasks_per_process, all_files, targets,
                   total, completed, nprocs, chunks, unit, dead, queue,
                   output, calls, fs>>

\* _download_file_aio: makedirs, GET, raise_for_status, open(tmp_path, 'wb')
HTaskRequest(t) ==
    /\ engine = "hybrid"
    /\ task[t] = "open"
    /\ LET meta == targets[t]
           tmp == TmpPath(HybridDest(meta))
       IN  \E ok \in BOOLEAN :
              IF ok
              THEN /\ fs' = OpenWb(fs, tmp, meta.id, run)
                   /\ task' = [task EXCEPT ![t] = "streaming"]
                   /\ UNCHANGED <<queue, put>>
              ELSE /\ Put(MsgError(meta.name, meta.id))
                   /\ task' = [task EXCEPT ![t] = "done"]
                   /\ UNCHANGED fs
    /\ UNCHANGED <<params, gui, lister, conf, pc, has_cb, tasks_per_process, all_files, targets,
                   total, completed, nprocs, chunks, unit, dead, output, calls>>

\* _download_file_aio: the chunk loop, then os.replace(tmp_path, dest_path).
\* The bytes are this item's only if no other task reopened the same .part
\* file meanwhile; os.replace raises when the .part file is gone.
HTaskStream(t) ==
    /\ engine = "hybrid"
    /\ task[t] = "streaming"
    /\ LET meta == targets[t]
           dest == HybridDest(meta)
           tmp == TmpPath(dest)
           written == [fs EXCEPT ![tmp] =
                          Content(fs[tmp].id, fs[tmp].run, fs[tmp].id = meta.id)]
       IN  \E ok \in BOOLEAN :
              IF ok /\ Exists(fs, tmp)
              THEN /\ fs' = Replace(written, tmp, dest)
                   /\ Put(MsgDownloaded(dest, meta.id))
              ELSE /\ Put(MsgError(meta.name, meta.id))
                   /\ UNCHANGED fs
    /\ task' = [task EXCEPT ![t] = "done"]
    /\ UNCHANGED <<params, gui, lister, conf, pc, has_cb, tasks_per_process, all_files, targets,
                   total, completed, nprocs, chunks, unit, dead, output, calls>>

\* a pool process dies while it runs a chunk (killed, out of memory): the
\* call is lost with the tasks it had not finished
HWorkerDies(u) ==
    /\ engine = "hybrid"
    /\ Busy(u)
    /\ unit' = [unit EXCEPT ![u] = "dead"]
    /\ task' = [t \in DOMAIN task |->
                   IF t \in TasksOf(u) /\ task[t] # "done" THEN "lost" ELSE task[t]]
    /\ dead' = dead + 1
    /\ UNCHANGED <<put, params, gui, lister, conf, pc, has_cb, tasks_per_process, all_files, targets,
                   total, completed, nprocs, chunks, queue, output, calls, fs>>

\* Pool's maintenance thread replaces dead processes in pool._pool
HRepopulate ==
    /\ engine = "hybrid"
    /\ pc = "collect"
    /\ dead > 0
    /\ dead' = 0
    /\ UNCHANGED <<put, params, gui, lister, conf, pc, has_cb, tasks_per_process, all_files, targets,
                   total, completed, nprocs, chunks, unit, task, queue, output,
                   calls, fs>>

\* any(p.is_alive() for p in pool._pool): the processes of an open Pool wait
\* for further calls after a call returns, so they are alive unless killed
any_alive == dead < nprocs

\* the test of line 293 without its "Error" case
CountedNoError(msg) ==
    \/ startswith(msg, "Downloaded:")
    \/ startswith(msg, "Skipped")
    \/ startswith(msg, "WARNING:")

\* the test of line 293
Counted(msg) ==
    \/ startswith(msg, "Downloaded:")
    \/ startswith(msg, "Skipped")
    \/ startswith(msg, "Error")
    \/ startswith(msg, "WARNING:")

Call(done, msg, raised) ==
    [done |-> done, total |-> total, msg |-> msg, raised |-> raised]

\* one pass of the while loop with a message: count, callback, yield.  The
\* callback runs inside the try whose except clause is the timeout branch.
HCollectGet ==
    /\ engine = "hybrid"
    /\ pc = "collect"
    /\ queue # <<>>
    /\ LET msg == Head(queue)
           c2 == IF Counted(msg) THEN completed + 1 ELSE completed
           again == IF c2 < total THEN "collect" ELSE "cleanup"
       IN  /\ queue' = Tail(queue)
           /\ completed' = c2
           /\ \E cb_raises \in BOOLEAN :
                 IF has_cb /\ cb_raises
                 THEN /\ calls' = Append(calls, Call(c2, msg, TRUE))
                      /\ UNCHANGED output
                      /\ pc' = IF ~any_alive THEN "cleanup" ELSE again
                 ELSE /\ calls' = IF has_cb
                                  THEN Append(calls, Call(c2, msg, FALSE))
                                  ELSE calls
                      /\ output' = Append(output, msg)
                      /\ pc' = again
    /\ UNCHANGED <<put, params, gui, lister, conf, has_cb, tasks_per_process, all_files, targets,
                   total, nprocs, chunks, unit, dead, task, fs>>

\* queue.get(timeout=1.0) raises Empty
HCollectTimeout ==
    /\ engine = "hybrid"
    /\ pc = "collect"
    /\ queue = <<>>
    /\ pc' = IF ~any_alive THEN "cleanup" ELSE "collect"
    /\ UNCHANGED <<put, params, gui, lister, conf, has_cb, tasks_per_process, all_files, targets,
                   total, completed, nprocs, chunks, unit, dead, task, queue,
                   output, calls, fs>>

\* pool.close(); pool.join(): returns when every submitted call has returned
HCleanup ==
    /\ engine = "hybrid"
    /\ pc = "cleanup"
    /\ \A u \in 1..Len(unit) : Finished(u)
    /\ pc' = "drain"
    /\ UNCHANGED <<put, params, gui, lister, conf, has_cb, tasks_per_process, all_files, targets,
                   total, completed, nprocs, chunks, unit, dead, task, queue,
                   output, calls, fs>>

\* while not queue.empty(): yield queue.get_nowait()
HDrain ==
    /\ engine = "hybrid"
    /\ pc = "drain"
    /\ queue # <<>>
    /\ output' = Append(output, Head(queue))
    /\ queue' = Tail(queue)
    /\ UNCHANGED <<put, params, gui, lister, conf, pc, has_cb, tasks_per_process, all_files, targets,
                   total, completed, nprocs, chunks, unit, dead, task, calls, fs>>

HFinish ==
    /\ engine = "hybrid"
    /\ pc = "drain"
    /\ queue = <<>>
    /\ output' = Append(output, MsgAllFinished)
    /\ pc' = "done"
    /\ UNCHANGED <<put, params, gui, lister, conf, has_cb, tasks_per_process, all_files, targets,
                   total, completed, nprocs, chunks, unit, dead, task, queue,
                   calls, fs>>

(* -------------------------- main.py: the run -------------------------- *)

\* processes = min(cpu_count(), max(1, int(os.getenv('DRIVE_MIRROR_PROCS',
\* cpu_count()))))
ClampWorkers(env, cpu) == Min(cpu, Max(1, IF env = 0 THEN cpu ELSE env))

\* a future that completed with an exception instead of a message
Raised(what, id) == Msg("Exception", what, <<>>, id)

IsRaised(msg) == msg.head = "Exception"

\* folder_map, targets, total, the T = 0 exit, the executor and one
\* run_in_executor per target
APrepare ==
    /\ engine = "async"
    /\ pc = "prepare"
    /\ LET tg == NonFolders(all_files)
       IN  /\ targets' = tg
           /\ total' = Len(tg)
           /\ IF Len(tg) = 0
              THEN /\ output' = Append(output, MsgNoFilesToDownload)
                   /\ pc' = "done"
                   /\ UNCHANGED <<conf, nprocs, task>>
              ELSE \E cpu \in 1..MaxCpu, env \in 0..MaxProcs :
                      /\ cpu_count' = cpu
                      /\ budget' = env
                      /\ nprocs' = ClampWorkers(env, cpu)
                      /\ task' = [t \in 1..Len(tg) |-> "queued"]
                      /\ pc' = "collect"
                      /\ UNCHANGED output
    /\ UNCHANGED <<put, params, gui, lister, has_cb, tasks_per_process, all_files,
                   completed, chunks, unit, dead, queue, calls, fs>>

Running(t) == task[t] \in {"ready", "checked", "streaming"}

\* download_file, lines 145-148, which no try encloses: authenticate and
\* get_local_path (the walk up the folders and os.makedirs).  An exception
\* here is the result of the future; a walk that never ends keeps the worker.
ADfStart(t) ==
    /\ engine = "async"
    /\ task[t] = "queued"
    /\ Cardinality({x \in DOMAIN task : Running(x) \/ task[x] = "hung"}) < nprocs
    /\ LET item == targets[t]
           where == resolve_path_for_item(item, build_folder_map(all_files))
       IN  \E r \in {"ok", "authenticate", "makedirs"} :
              IF r = "authenticate" \/ ~where.diverged
              THEN IF r = "ok"
                   THEN /\ task' = [task EXCEPT ![t] = "ready"]
                        /\ UNCHANGED <<queue, put>>
                   ELSE /\ task' = [task EXCEPT ![t] = "done"]
                        /\ Put(Raised(r, item.id))
              ELSE /\ task' = [task EXCEPT ![t] = "hung"]
                   /\ UNCHANGED <<queue, put>>
    /\ UNCHANGED <<params, gui, lister, conf, pc, has_cb, tasks_per_process, all_files, targets,
                   total, completed, nprocs, chunks, unit, dead, output,
                   calls, fs>>

FinalPath(t) == MainFinalPath(targets[t], build_folder_map(all_files))

\* if os.path.exists(final_path): return "Skipped (exists): ..."
ADfCheck(t) ==
    /\ engine = "async"
    /\ task[t] = "ready"
    /\ IF Exists(fs, FinalPath(t))
       THEN /\ task' = [task EXCEPT ![t] = "done"]
            /\ Put(MsgSkipExists(FinalPath(t), targets[t].id))
       ELSE /\ task' = [task EXCEPT ![t] = "checked"]
            /\ UNCHANGED <<queue, put>>
    /\ UNCHANGED <<params, gui, lister, conf, pc, has_cb, tasks_per_process, all_files, targets,
                   total, completed, nprocs, chunks, unit, dead, output,
                   calls, fs>>

\* fh = io.FileIO(final_path, 'wb')
ADfOpen(t) ==
    /\ engine = "async"
    /\ task[t] = "checked"
    /\ \E ok \in BOOLEAN :
          IF ok
          THEN /\ fs' = OpenWb(fs, FinalPath(t), targets[t].id, run)
               /\ task' = [task EXCEPT ![t] = "streaming"]
               /\ UNCHANGED <<queue, put>>
          ELSE /\ Put(MsgError(targets[t].name, targets[t].id))
               /\ task' = [task EXCEPT ![t] = "done"]
               /\ UNCHANGED fs
    /\ UNCHANGED <<params, gui, lister, conf, pc, has_cb, tasks_per_process, all_files, targets,
                   total, completed, nprocs, chunks, unit, dead, output, calls>>

\* the next_chunk loop, to its end or to its exception
ADfChunks(t) ==
    /\ engine = "async"
    /\ task[t] = "streaming"
    /\ LET final == FinalPath(t)
           id == targets[t].id
       IN  \E ok \in BOOLEAN :
              IF ok
              THEN /\ fs' = [fs EXCEPT ![final] =
                                Content(fs[final].id, fs[final].run,
                                        fs[final].id = id)]
                   /\ Put(MsgDownloaded(final, id))
              ELSE /\ Put(MsgError(targets[t].name, id))
                   /\ UNCHANGED fs
    /\ task' = [task EXCEPT ![t] = "done"]
    /\ UNCHANGED <<params, gui, lister, conf, pc, has_cb, tasks_per_process, all_files, targets,
                   total, completed, nprocs, chunks, unit, dead, output, calls>>

\* DriveMirrorApp.update_progress, the callback the window passes: nothing
\* leaves it (its body is one try/except pass), it returns at once when
\* total is 0 and otherwise writes "<done>/<total> ..." into the label
update_progress(done, tot) ==
    IF tot = 0 THEN progress_label ELSE "done/total"

\* one pass of 'for coro in asyncio.as_completed(tasks)': await, count,
\* callback inside try/except, yield.  Under the window the callback is
\* update_progress.
ACollect ==
    /\ engine = "async"
    /\ pc = "collect"
    /\ queue # <<>>
    /\ LET result == Head(queue)
       IN  /\ queue' = Tail(queue)
           /\ IF IsRaised(result)
              THEN /\ pc' = "raised"
                   /\ UNCHANGED <<completed, calls, output, progress_label>>
              ELSE /\ completed' = completed + 1
                   /\ \E cb_raises \in BOOLEAN :
                         /\ active > 0 => ~cb_raises
                         /\ calls' = IF has_cb
                                     THEN Append(calls, Call(completed + 1, result,
                                                             cb_raises))
                                     ELSE calls
                   /\ progress_label' = IF active > 0
                                        THEN update_progress(completed + 1, total)
                                        ELSE progress_label
                   /\ output' = Append(output, result)
                   /\ pc' = IF completed + 1 < total THEN "collect" ELSE "shutdown"
    /\ UNCHANGED <<put, params, start_button, active, lister, conf, has_cb,
                   tasks_per_process, all_files, targets,
                   total, nprocs, chunks, unit, dead, task, fs>>

\* executor.shutdown(wait=True); the generator ends
AShutdown ==
    /\ engine = "async"
    /\ pc = "shutdown"
    /\ \A t \in DOMAIN task : task[t] = "done"
    /\ pc' = "done"
    /\ UNCHANGED <<put, params, gui, lister, conf, has_cb, tasks_per_process, all_files, targets,
                   total, completed, nprocs, chunks, unit, dead, task, queue,
                   output, calls, fs>>

\* the caller mirrors again into the same folder; the remote is unchanged
RunAgain ==
    /\ pc = "done"
    /\ active = 0
    /\ run < MaxRuns
    /\ run' = run + 1
    /\ pc' = "list"
    /\ has_cb' = FALSE
    /\ tasks_per_process' = 1
    /\ all_files' = <<>>
    /\ targets' = <<>>
    /\ total' = 0
    /\ completed' = 0
    /\ nprocs' = 0
    /\ chunks' = <<>>
    /\ unit' = <<>>
    /\ dead' = 0
    /\ task' = <<>>
    /\ queue' = <<>>
    /\ put' = <<>>
    /\ output' = <<>>
    /\ calls' = <<>>
    /\ cpu_count' = 0
    /\ budget' = 0
    /\ UNCHANGED <<engine, drive, lister, gui, fs>>

(* ------------------------------ the window --------------------------- *)

\* the button configured at the end of the try body instead
ButtonAfterRunOnSuccessOnly(how) ==
    IF how = "done" THEN "normal" ELSE "disabled"

\* state the finally clause of run_async_mirror gives the Start button,
\* whichever way the try body was left
ButtonAfterRun(how) == "normal"

\* command of the Start button (a disabled button does not call it): with
\* an empty entry an error box and nothing else; otherwise the button is
\* disabled, the label set, and a thread is started on run_async_mirror,
\* which begins a mirror_drive_async generator
start_mirror ==
    /\ start_button = "normal"
    /\ \E creds \in BOOLEAN, out \in BOOLEAN :
          IF ~creds \/ ~out
          THEN UNCHANGED vars
          ELSE /\ run < MaxRuns
               /\ start_button' = "disabled"
               /\ progress_label' = "Connecting to Google Drive..."
               /\ active' = active + 1
               /\ run' = run + 1
               /\ pc' = "list"
               /\ has_cb' = FALSE
               /\ tasks_per_process' = 1
               /\ all_files' = <<>>
               /\ targets' = <<>>
               /\ total' = 0
               /\ completed' = 0
               /\ nprocs' = 0
               /\ chunks' = <<>>
               /\ unit' = <<>>
               /\ dead' = 0
               /\ task' = <<>>
               /\ queue' = <<>>
               /\ put' = <<>>
               /\ output' = <<>>
               /\ calls' = <<>>
               /\ cpu_count' = 0
               /\ budget' = 0
               /\ UNCHANGED <<engine, drive, lister, fs>>

\* the thread leaves asyncio.run: after the generator ended the try body
\* writes "Completed successfully!", after it raised the except branch
\* writes "Error occurred: ..."; then the finally clause
run_async_mirror ==
    /\ active > 0
    /\ pc \in {"done", "raised", "aborted"}
    /\ progress_label' = IF pc = "done" THEN "Completed successfully!"
                                        ELSE "Error occurred"
    /\ start_button' = ButtonAfterRun(pc)
    /\ active' = active - 1
    /\ pc' = "idle"
    /\ UNCHANGED <<put, params, lister, conf, has_cb, tasks_per_process,
                   all_files, targets, total, completed, nprocs, chunks, unit,
                   dead, task, queue, output, calls, fs>>

Next ==
    \/ ListFiles
    \/ ListPage
    \/ HPrepare
    \/ \E u \in DOMAIN unit : HUnitStart(u)
    \/ \E t \in DOMAIN task : HTaskBegin(t)
    \/ \E t \in DOMAIN task : HTaskAcquire(t)
    \/ \E t \in DOMAIN task : HTaskRequest(t)
    \/ \E t \in DOMAIN task : HTaskStream(t)
    \/ \E u \in DOMAIN unit : HWorkerDies(u)
    \/ HRepopulate
    \/ HCollectGet
    \/ HCollectTimeout
    \/ HCleanup
    \/ HDrain
    \/ HFinish
    \/ APrepare
    \/ \E t \in DOMAIN task : ADfStart(t)
    \/ \E t \in DOMAIN task : ADfCheck(t)
    \/ \E t \in DOMAIN task : ADfOpen(t)
    \/ \E t \in DOMAIN task : ADfChunks(t)
    \/ ACollect
    \/ AShutdown
    \/ RunAgain

Spec == Init /\ [][Next]_vars

\* The runs in which no pool process is killed, under the scheduling the
\* code relies on: the caller iterates the generator to its end and the
\* worker processes keep running, so each takes its next step if that step
\* stays possible.  The caller starting another run is not forced to happen.
Generator ==
    \/ ListFiles \/ ListPage \/ HPrepare \/ HCollectGet \/ HCollectTimeout \/ HCleanup
    \/ HDrain \/ HFinish \/ APrepare \/ ACollect \/ AShutdown

Workers ==
    \/ \E u \in DOMAIN unit : HUnitStart(u)
    \/ \E t \in DOMAIN task :
          \/ HTaskBegin(t) \/ HTaskAcquire(t) \/ HTaskRequest(t) \/ HTaskStream(t)
          \/ ADfStart(t) \/ ADfCheck(t) \/ ADfOpen(t) \/ ADfChunks(t)

NextNoKill == Generator \/ Workers \/ RunAgain

FairSpec ==
    Init /\ [][NextNoKill]_vars /\ WF_vars(Generator) /\ WF_vars(Workers)

\* The window: DriveMirrorApp after __init__, no run started yet.  Every
\* run is a mirror_drive_async generator driven by a thread the Start
\* button started.
GuiInit ==
    /\ engine = "async"
    /\ drive \in Listings
    /\ run = 0
    /\ pc = "idle"
    /\ has_cb = FALSE
    /\ lister_files = <<>>
    /\ page_token = 0
    /\ cpu_count = 0
    /\ budget = 0
    /\ start_button = "normal"
    /\ active = 0
    /\ progress_label = "Idle"
    /\ tasks_per_process = 1
    /\ all_files = <<>>
    /\ targets = <<>>
    /\ total = 0
    /\ completed = 0
    /\ nprocs = 0
    /\ chunks = <<>>
    /\ unit = <<>>
    /\ dead = 0
    /\ task = <<>>
    /\ queue = <<>>
    /\ put = <<>>
    /\ output = <<>>
    /\ calls = <<>>
    /\ fs = [p \in Paths |-> NoFile]

GuiNext ==
    \/ start_mirror
    \/ ListFiles
    \/ ListPage
    \/ APrepare
    \/ \E t \in DOMAIN task : ADfStart(t)
    \/ \E t \in DOMAIN task : ADfCheck(t)
    \/ \E t \in DOMAIN task : ADfOpen(t)
    \/ \E t \in DOMAIN task : ADfChunks(t)
    \/ ACollect
    \/ AShutdown
    \/ run_async_mirror

GuiSpec == GuiInit /\ [][GuiNext]_vars

(* ------------------------------- claims ------------------------------- *)

\* a terminal outcome message: Downloaded, Skipped (exists),
\* Skipped (no export type) or Error
Terminal(msg) == msg.head \in {"Downloaded:", "Skipped", "Error"}

\* the two summary sentinels of the output vocabulary
Sentinel(msg) ==
    \/ msg = Msg("All", "worker processes finished.", <<>>, 0)
    \/ msg = Msg("No", "files found.", <<>>, 0)

CountTerminal(seq) == Cardinality({i \in 1..Len(seq) : Terminal(seq[i])})

OutcomesFor(seq, id) ==
    Cardinality({i \in 1..Len(seq) : Terminal(seq[i]) /\ seq[i].id = id})

\* the final destination of target t in the running engine
Dest(t) == IF engine = "hybrid" THEN HybridDest(targets[t]) ELSE FinalPath(t)

\* C1: a run over T >= 1 items that has delivered its last message has
\* emitted exactly T terminal outcome messages, none of them after a sentinel.
C1_ExactlyTOutcomes ==
    (pc = "done" /\ total >= 1) =>
        /\ CountTerminal(output) = total
        /\ \A i \in 1..Len(output) : Sentinel(output[i]) => i = Len(output)

\* C2: every item whose fetch has finished has produced exactly one terminal
\* outcome message, and no item ever has more than one.
C2_OneOutcomePerItem ==
    \A t \in DOMAIN task :
        /\ OutcomesFor(put, targets[t].id) <= 1
        /\ task[t] = "done" => OutcomesFor(put, targets[t].id) = 1

EndsWithSentinel ==
    pc = "done" /\ output # <<>> /\ Sentinel(output[Len(output)])

\* C3: unless the listing fails, a run eventually ends with a summary
\* sentinel as the last element of its output.
C3_EndsWithSentinel == <>(pc = "aborted" \/ EndsWithSentinel)

\* a unit of the hybrid run has stopped without an outcome for each of its
\* items (its call failed at the start, or its process died), every other
\* unit has finished, and the collector still waits
StoppedShort ==
    /\ engine = "hybrid"
    /\ pc = "collect"
    /\ completed < total
    /\ \E u \in DOMAIN unit : unit[u] \in {"failed", "dead"}
    /\ \A u \in DOMAIN unit : Finished(u) \/ unit[u] = "dead"

\* C4: when a unit has stopped without reporting all its outcomes, the
\* collector leaves its loop and the final summary message is emitted.
C4_CollectorLeaves ==
    StoppedShort ~> (output # <<>> /\ output[Len(output)] = MsgAllFinished)

AllFolders == \A i \in DOMAIN all_files : all_files[i].mimeType = FOLDER_MIME

Listed == pc \notin {"list", "page", "prepare", "aborted"}

C6_FailuresIsolated ==
    /\ pc # "raised"
    /\ \A i \in 1..Len(put) : ~IsRaised(put[i])
    /\ \A t \in DOMAIN task :
          task[t] = "done" => OutcomesFor(put, targets[t].id) >= 1

\* C7: a message whose callback invocation raised is still yielded to the
\* caller.
C7_CallbackSwallowed ==
    \A i \in 1..Len(calls) :
        calls[i].raised => \E j \in 1..Len(output) : output[j] = calls[i].msg

\* the messages the collector loop has taken so far (the queue is FIFO)
Received == SubSeq(put, 1, Len(put) - Len(queue))

\* C8: while the collector runs, completed is the number of terminal outcome
\* messages received so far, and the callback has been invoked for terminal
\* outcome messages only, each time with the value of completed after the
\* increment.
C8_CompletedCountsOutcomes ==
    /\ pc = "collect" => completed = CountTerminal(Received)
    /\ \A i \in 1..Len(calls) :
          /\ Terminal(calls[i].msg)
          /\ calls[i].done = CountTerminal(SubSeq(Received, 1, i))

\* C9: the step a fetch takes when its final path already exists ends the
\* fetch with "Skipped (exists): <path>" and changes no file.
C9_SkipsExisting ==
    [][\A t \in DOMAIN task :
          ( /\ task[t] \in {"open", "ready"}
            /\ Exists(fs, Dest(t))
            /\ t \in DOMAIN task'
            /\ task'[t] \notin {task[t], "lost"} )
          => /\ task'[t] = "done"
             /\ fs' = fs
             /\ put' = Append(put, MsgSkipExists(Dest(t), targets[t].id))]_vars

\* every target's file is in place, complete, as the first run left it
MirroredByFirstRun ==
    \A t \in DOMAIN targets :
        fs[Dest(t)] = Content(targets[t].id, 1, TRUE)

\* C10: in a second run over files the first run has mirrored, every outcome
\* is "Skipped (exists)" and no file is written.
C10_SecondRunSkips ==
    (run = 2 /\ Listed /\ MirroredByFirstRun) =>
        /\ \A i \in 1..Len(put) :
              Terminal(put[i]) =>
                  put[i].head = "Skipped" /\ put[i].rest = "(exists):"
        /\ \A p \in Paths : fs[p].run # 2

\* C11: in every state of a run, a file at the final destination path of an
\* item holds a completed transfer; a transfer that has started and not
\* succeeded has put no file there.
C11_FinalOnlyComplete ==
    \A t \in DOMAIN task :
        Exists(fs, Dest(t)) => fs[Dest(t)].complete

\* C12: once the units of a run over T >= 1 items are started, their number
\* is min(configured budget, cpu_count, T), the budget being cpu_count when
\* none is configured; so no unit is without an item.
C12_UnitsClamped ==
    cpu_count > 0 =>
        nprocs = Min(Min(IF budget = 0 THEN cpu_count ELSE budget, cpu_count),
                     total)

\* C13: after a failed login or page request the run is over with nothing
\* listed, no unit, no task, no message and no file written in this run,
\* whatever pages the lister had received; and units and tasks only ever
\* exist for a listing that was received completely.
C13_ListingFailureAborts ==
    /\ pc = "aborted" =>
          /\ all_files = <<>> /\ targets = <<>> /\ total = 0 /\ nprocs = 0
          /\ unit = <<>> /\ task = <<>> /\ put = <<>> /\ output = <<>>
          /\ \A p \in Paths : fs[p].run # run
    /\ (unit # <<>> \/ task # <<>> \/ targets # <<>>) =>
          all_files = Matching(drive, engine)

\* C13 witness: the run was aborted by a page request that failed after an
\* earlier page with a file in it had been received.
C13_Witness ==
    /\ pc = "aborted"
    /\ \E i \in DOMAIN lister_files : lister_files[i].mimeType # FOLDER_MIME
    /\ page_token # 0

\* C14: when the worker calls of a hybrid run have all returned and a
\* WARNING was reported, every item of the run has its terminal outcome.
C14_RefreshDegrades ==
    (engine = "hybrid" /\ pc \in {"drain", "done"}
        /\ \E i \in DOMAIN put : put[i].head = "WARNING:") =>
    \A t \in DOMAIN targets : OutcomesFor(put, targets[t].id) = 1

\* the non-trashed items of the store, shared ones included
Accessible(store) == SelectSeq(store, LAMBDA f : ~f.trashed)

\* C16: the list the lister returns holds exactly the non-trashed items of
\* the store, those shared with the account included, page after page.
C16_ListerComplete ==
    pc \notin {"list", "page", "aborted"} => all_files = Accessible(drive)

\* a native type without an entry of its own in the export table
Unmapped(mime) ==
    /\ IsGoogleApps(mime)
    /\ mime \notin {FOLDER_MIME, DOC_MIME, SHEET_MIME, SLIDES_MIME}

C17_WalkTerminates ==
    \A t \in DOMAIN task : task[t] # "hung"

\* the listed record of an item
ListedItem(id) == CHOOSE f \in Range(all_files) : f.id = id

\* the parent chains of an item in a folder index: from its first parent,
\* each folder followed by its own parent, up to a folder whose parent is
\* absent or not in the index (none exists when the chain runs into a cycle)
ChainsOf(item, fm) ==
    LET F  == DOMAIN fm
        p0 == IF item.parents # <<>> THEN item.parents[1] ELSE 0
    IN  {c \in UNION {[1..n -> F] : n \in 0..Cardinality(F)} :
            /\ IF c = <<>> THEN p0 \notin F ELSE c[1] = p0
            /\ \A i \in 1..(Len(c) - 1) : c[i + 1] = fm[c[i]].parent
            /\ c # <<>> => fm[c[Len(c)]].parent \notin F}

\* the directory segments below the root that the claim gives for a chain
ExpectedDir(item, c, fm) ==
    IF c = <<>>
    THEN IF item.shared THEN <<<<"S", "h", "a", "r", "e", "d">>>>
         ELSE <<<<"M", "y", " ", "D", "r", "i", "v", "e">>>>
    ELSE [i \in 1..Len(c) |-> sanitize_name(fm[c[Len(c) + 1 - i]].name)]

\* C18: with an acyclic folder index, the directory of every item's
\* destination is the sanitized names of its ancestors from the outermost
\* resolvable folder down to its parent, or the one segment "Shared" /
\* "My Drive" when no ancestor resolves.
C18_StoredUnderAncestors ==
    \A t \in DOMAIN task :
        LET item == ListedItem(targets[t].id)
            fm   == build_folder_map(all_files)
        IN  \A c \in ChainsOf(item, fm) :
                SubSeq(Dest(t), 1, Len(Dest(t)) - 1) = ExpectedDir(item, c, fm)

\* the sanitized name of target t in the running engine
SanitizedName(t) ==
    IF engine = "hybrid" THEN safe_name(targets[t].name)
    ELSE sanitize_name(targets[t].name)

\* C19: the sanitized name of every item is non-empty, at most 240
\* characters long and free of illegal characters.
C19_SanitizeTotal ==
    \A t \in DOMAIN task :
        LET n == SanitizedName(t)
        IN  /\ n # <<>>
            /\ Len(n) <= MAX_PATH_LEN
            /\ \A i \in DOMAIN n : n[i] \notin (HybridIllegal \cup MainIllegal)

\* C20: in every worker unit the transfers in flight, those between
\* entering 'async with sem' and their end, are at most tasks_per_process.
C20_SemaphoreBound ==
    \A u \in DOMAIN unit : SemHeld(u) <= tasks_per_process

\* C20 witness: a unit with sub-concurrency 1 and a group of two items has
\* one transfer streaming while the other waits for the semaphore.
C20_Witness ==
    /\ tasks_per_process = 1
    /\ \E u \in DOMAIN unit : \E t1, t2 \in TasksOf(u) :
          task[t1] = "streaming" /\ task[t2] = "waiting"

RECURSIVE Flatten(_)
Flatten(groups) ==
    IF groups = <<>> THEN <<>> ELSE Head(groups) \o Flatten(Tail(groups))

\* groups is a split of lst into exactly n groups, in order, whose sizes
\* differ by at most one
EvenSplit(groups, lst, n) ==
    /\ Len(groups) = n
    /\ Flatten(groups) = lst
    /\ \A i, j \in DOMAIN groups : Len(groups[i]) <= Len(groups[j]) + 1

\* C21: _chunkify(lst, n) is such a split for every list and every n >= 1
\* tried; the groups of a run split its targets, none of which is a folder,
\* so that every target is in exactly one group, and exactly the non-empty
\* groups are dispatched, each to one worker call.
C21_ChunkifyPartitions ==
    /\ pc = "prepare" =>
          \A len \in 0..MaxChunkLen, n \in 1..MaxChunks :
              EvenSplit(_chunkify(Positions(len), n), Positions(len), n)
    /\ chunks # <<>> =>
          /\ EvenSplit(chunks, Positions(total), nprocs)
          /\ \A t \in DOMAIN targets :
                /\ targets[t].mimeType # FOLDER_MIME
                /\ Cardinality({u \in DOMAIN chunks :
                                   t \in Range(chunks[u])}) = 1
          /\ DOMAIN unit = DOMAIN chunks
          /\ \A u \in DOMAIN unit : (unit[u] = "none") <=> (chunks[u] = <<>>)

\* C21 witness: two items were split over two units and both units have
\* started on their item.
C21_Witness ==
    /\ total = 2 /\ nprocs = 2 /\ chunks = << <<1>>, <<2>> >>
    /\ \A u \in DOMAIN unit : unit[u] = "running"

\* C22: no two fetches have the same file open for writing at the same
\* time.
C22_NoSharedFile ==
    \A t1, t2 \in DOMAIN task :
        (t1 # t2 /\ task[t1] = "streaming" /\ task[t2] = "streaming") =>
            Dest(t1) # Dest(t2)

\* C23: in mirror_drive_hybrid the output is the messages taken from the
\* queue so far, each once and in order, followed at the end of the run by
\* the final sentinel; at the end nothing is left in the queue.
C23_QueueYieldedOnce ==
    (engine = "hybrid" /\ total >= 1) =>
        /\ output = Received \o (IF pc = "done" THEN <<MsgAllFinished>> ELSE <<>>)
        /\ pc = "done" => queue = <<>>

\* C24: when the message sequence has ended, by its last message or by an
\* exception, no fetch is pending or running and every worker call has
\* returned.
C24_UnitsJoinedAtEnd ==
    pc \in {"done", "raised", "aborted"} =>
        /\ \A t \in DOMAIN task : task[t] \in {"idle", "done"}
        /\ \A u \in DOMAIN unit : Finished(u)

C26_StartButtonGuardsRun ==
    /\ active \in {0, 1}
    /\ (start_button = "disabled") <=> (active = 1)
    /\ (pc = "idle") <=> (active = 0)
    /\ start_button \in {"normal", "disabled"}

\* C26 witness: a run started from the button ended by an exception and
\* the button is enabled again.
C26_Witness ==
    /\ run >= 1 /\ pc = "idle" /\ active = 0
    /\ progress_label = "Error occurred"
    /\ start_button = "normal"

=============================================================================
